---- MODULE Spec2Model ----
(***************************************************************************)
(* Reminder generation / daily status tracking and medicine-alternative    *)
(* resolution of the sehaty backend (controllers/medicineController.js).   *)
(*                                                                         *)
(* Time.  A Date is an integer instant counted in ticks since the epoch    *)
(* (UTC); a day has DayLen ticks.  The server's time zone is a fixed       *)
(* offset tz (in ticks) chosen when the process starts.  A 'YYYY-MM-DD'    *)
(* string is the number of its UTC day.                                    *)
(*                                                                         *)
(* Requests.  Every handler is an async function: it runs alone between    *)
(* two awaits and other requests run while it waits.  A request is a slot  *)
(* of req with the handler's arguments, its local variables and its        *)
(* position (pc); one action is one stretch of handler code between two    *)
(* suspension points, together with the database operation it waits for.   *)
(***************************************************************************)
EXTENDS Integers, Sequences, FiniteSets, TLC

VARIABLES
    tz,             \* server time zone: local time = UTC + tz (ticks)
    users,          \* the authenticated users that send requests (req.user._id)
    reminders,      \* Reminder collection: sequence of documents, _id = index
    userReminders,  \* User.reminders: user -> sequence of reminder ids
    req,            \* request slot -> handler activation record
    medicines,      \* Medicine collection: _id -> document
    listings,       \* PharmacyMedicine collection: sequence of documents
    altResp,        \* the response of getMedicineAlternatives, code 0 before it
    reviews,        \* Review collection: sequence of documents
    ratings,        \* Medicine.rating / totalReviews: medicine _id -> fields
    screen,         \* DrugAlternativeScreen: its useState values
    storage,        \* AsyncStorage of the app: the keys that hold a value
    auth,           \* redux auth slice
    stack,          \* the app's chain of pending async calls, innermost last
    dispatched,     \* number of logoutUser dispatches so far
    outcome,        \* how the outermost call of the chain settled
    linking,        \* Linking / AppState as AppContent sees them
    handlers,       \* activations of the deep-link handlers not yet finished
    navigated       \* the navigate() calls made so far

altVars == <<medicines, listings, altResp>>

reviewVars == <<reviews, ratings>>

clientVars == <<screen, storage, auth, stack, dispatched, outcome>>

linkVars == <<linking, handlers, navigated>>

vars == <<tz, users, reminders, userReminders, req, altVars, reviewVars,
          clientVars, linkVars>>

(***************************************************************************)
(* Bounds of the model                                                     *)
(***************************************************************************)
\* requests handled in one run
MaxReqs == 3
\* calendar days a request body or URL may name: 0 .. NumDays-1
NumDays == 2
\* ticks of one day (the resolution of the clock)
DayLen == 2
\* createReminder requests handled in one run
MaxCreates == 1
\* updateReminder requests handled in one run
MaxUpdates == 1

ReqIds == 1..MaxReqs
\* the accounts of the User collection
Users == {"A", "B"}
Days == 0..(NumDays - 1)
Instants == 0..(NumDays * DayLen - 1)
TzOffsets == {-1, 0, 1}
\* status values sent to markReminderAsTaken
StatusInputs == {"completed", "missed"}
\* the values the schema of a dailyStatuses entry admits for status
StatusEnum == {"active", "completed", "missed"}
\* a body without date, a body without status
NoDate == -1
NoStatus == ""
\* what req.body.date and req.body.status of markReminderAsTaken may be:
\* a day or nothing; a status of the enum, another string, or nothing
BodyDates == Days \cup {NoDate}
BodyStatuses == StatusInputs \cup {"taken", NoStatus}
\* the time of day of a schedule, as an instant of day 0
TimeInputs == {DayLen - 1}

Idle == [kind |-> "none", pc |-> "idle"]
NoResponse == [code |-> 0]

\* PharmacyMedicine documents in the collection
MaxListings == 2
\* the medicines of the catalogue; medicine 1 is the one with a curated list
MedIds == {1, 2, 3}

(***************************************************************************)
(* Dates                                                                   *)
(***************************************************************************)
\* the calendar day of instant t in the server's time zone
LocalDay(t) == (t + tz) \div DayLen

\* mutant: the start of the UTC day instead of the local day
startOfDay_utc(t) == (t \div DayLen) * DayLen

\* date-fns startOfDay / endOfDay / addDays: computed in local time
startOfDay(t) == LocalDay(t) * DayLen - tz
endOfDay(t) == startOfDay(t) + (DayLen - 1)
addDays(t, n) == t + n * DayLen

\* d.toISOString().split('T')[0]: the UTC calendar day of instant t
isoDate(t) == t \div DayLen

\* new Date(date + 'T00:00:00.000Z') and new Date(date + 'T23:59:59.999Z')
utcMidnight(d) == d * DayLen
utcEndOfDay(d) == d * DayLen + (DayLen - 1)

\* reminderTime: day of currentDate, hours and minutes of time (both local)
setHours(currentDate, time) == currentDate + ((time + tz) % DayLen)

(***************************************************************************)
(* Reminder documents                                                      *)
(***************************************************************************)
\* an entry of dailyStatuses: an embedded document of the Reminder schema
DailyStatus(date, status, isTaken) ==
    [date |-> date, status |-> status, isTaken |-> isTaken]

\* reminder.dailyStatuses.push(obj): the array of embedded documents casts
\* the plain object into a new subdocument and appends that copy; what is
\* assigned to obj afterwards does not reach the array
pushStatus(dailyStatuses, obj) ==
    Append(dailyStatuses, DailyStatus(obj.date, obj.status, obj.isTaken))

\* the fields of a Reminder that the schema fills in by default
ReminderDefaults == [isTaken |-> FALSE, isDeleted |-> FALSE]

\* mutant: the seeded entry carries the end of the range as its date
NewReminder_seedEnd(user, time, currentDate, endDateTime) ==
    [user |-> user,
     time |-> setHours(currentDate, time),
     startDate |-> currentDate,
     endDate |-> endDateTime,
     status |-> "active",
     dailyStatuses |-> <<DailyStatus(endDateTime, "active", FALSE)>>]
    @@ ReminderDefaults

\* new Reminder({...}) of createReminder
NewReminder(user, time, currentDate, endDateTime) ==
    [user |-> user,
     time |-> setHours(currentDate, time),
     startDate |-> currentDate,
     endDate |-> endDateTime,
     status |-> "active",
     dailyStatuses |-> <<DailyStatus(currentDate, "active", FALSE)>>]
    @@ ReminderDefaults

RemIds == 1..Len(reminders)

(***************************************************************************)
(* createReminder                                                          *)
(***************************************************************************)
createReminder(r) ==
    /\ req[r].pc = "idle"
    /\ \A q \in ReqIds : q < r => req[q].pc # "idle"
    /\ Cardinality({q \in ReqIds : req[q].kind = "create"}) < MaxCreates
    /\ \E user \in users, startDate \in Instants, endDate \in Instants,
          time \in TimeInputs :
          req' = [req EXCEPT ![r] =
                    [kind |-> "create", pc |-> "loop", user |-> user,
                     startDate |-> startDate, endDate |-> endDate,
                     time |-> time,
                     currentDate |-> startOfDay(startDate),
                     endDateTime |-> endOfDay(endDate),
                     made |-> <<>>, code |-> 0]]
    /\ UNCHANGED <<tz, users, reminders, userReminders, altVars, reviewVars, clientVars, linkVars>>

\* one turn of the while loop: await reminder.save(); reminders.push(reminder)
createReminder_save(r) ==
    /\ req[r].kind = "create" /\ req[r].pc = "loop"
    /\ req[r].currentDate <= req[r].endDateTime
    /\ LET doc == NewReminder(req[r].user, req[r].time,
                              req[r].currentDate, req[r].endDateTime)
           id == Len(reminders) + 1
       IN /\ reminders' = Append(reminders, doc)
          /\ req' = [req EXCEPT
                       ![r].made = Append(@, [id |-> id, doc |-> doc]),
                       ![r].currentDate = addDays(@, 1)]
    /\ UNCHANGED <<tz, users, userReminders, altVars, reviewVars, clientVars, linkVars>>

\* mutant: the ids saved so far are registered before the 500 is sent
createReminder_saveFails_registers(r) ==
    /\ req[r].kind = "create" /\ req[r].pc = "loop"
    /\ req[r].currentDate <= req[r].endDateTime
    /\ userReminders' = [userReminders EXCEPT ![req[r].user] =
                            @ \o [i \in 1..Len(req[r].made) |-> req[r].made[i].id]]
    /\ req' = [req EXCEPT ![r].pc = "done", ![r].code = 500]
    /\ UNCHANGED <<tz, users, reminders, altVars, reviewVars, clientVars, linkVars>>

\* reminder.save() rejects: the catch block answers 500
createReminder_saveFails(r) ==
    /\ req[r].kind = "create" /\ req[r].pc = "loop"
    /\ req[r].currentDate <= req[r].endDateTime
    /\ req' = [req EXCEPT ![r].pc = "done", ![r].code = 500]
    /\ UNCHANGED <<tz, users, reminders, userReminders, altVars, reviewVars, clientVars, linkVars>>

\* mutant: the update of the user is started but not awaited, and the
\* response goes out first
createReminder_register_unawaited(r) ==
    /\ req[r].kind = "create" /\ req[r].pc = "loop"
    /\ req[r].currentDate > req[r].endDateTime
    /\ req' = [req EXCEPT ![r].pc = "done", ![r].code = 201]
    /\ UNCHANGED <<tz, users, reminders, userReminders, altVars, reviewVars, clientVars, linkVars>>

\* the loop is over: await User.findByIdAndUpdate(..., {$push: {$each: ids}})
createReminder_register(r) ==
    /\ req[r].kind = "create" /\ req[r].pc = "loop"
    /\ req[r].currentDate > req[r].endDateTime
    /\ userReminders' = [userReminders EXCEPT ![req[r].user] =
                            @ \o [i \in 1..Len(req[r].made) |-> req[r].made[i].id]]
    /\ req' = [req EXCEPT ![r].pc = "respond"]
    /\ UNCHANGED <<tz, users, reminders, altVars, reviewVars, clientVars, linkVars>>

createReminder_registerFails(r) ==
    /\ req[r].kind = "create" /\ req[r].pc = "loop"
    /\ req[r].currentDate > req[r].endDateTime
    /\ req' = [req EXCEPT ![r].pc = "done", ![r].code = 500]
    /\ UNCHANGED <<tz, users, reminders, userReminders, altVars, reviewVars, clientVars, linkVars>>

\* res.status(201).json(reminders)
createReminder_respond(r) ==
    /\ req[r].kind = "create" /\ req[r].pc = "respond"
    /\ req' = [req EXCEPT ![r].pc = "done", ![r].code = 201]
    /\ UNCHANGED <<tz, users, reminders, userReminders, altVars, reviewVars, clientVars, linkVars>>

(***************************************************************************)
(* getRemindersByDate                                                      *)
(***************************************************************************)
\* mutant: the entries are compared by their day in the server's calendar
findStatus_local(dailyStatuses, date) ==
    LET hits == {i \in 1..Len(dailyStatuses) : LocalDay(dailyStatuses[i].date) = date}
    IN IF hits = {} THEN 0 ELSE CHOOSE i \in hits : \A j \in hits : i <= j

\* reminder.dailyStatuses.find(s => new Date(s.date).toISOString()
\*                                    .split('T')[0] === date):
\* the index of the first entry on UTC day date, 0 when there is none
findStatus(dailyStatuses, date) ==
    LET hits == {i \in 1..Len(dailyStatuses) : isoDate(dailyStatuses[i].date) = date}
    IN IF hits = {} THEN 0 ELSE CHOOSE i \in hits : \A j \in hits : i <= j

\* the filter of Reminder.find in getRemindersByDate
matchesDate(doc, user, date) ==
    /\ doc.user = user
    /\ ~doc.isDeleted
    /\ \/ doc.startDate <= utcEndOfDay(date) /\ doc.endDate >= utcMidnight(date)
       \/ doc.time >= utcMidnight(date) /\ doc.time <= utcEndOfDay(date)

\* Reminder.find(...) resolves, the map runs and res.json(...) is sent, all
\* in one stretch: each reminder without an entry for date gets a default
\* entry pushed and reminder.save() started, which nobody awaits.
getRemindersByDate(r) ==
    /\ req[r].pc = "idle"
    /\ \A q \in ReqIds : q < r => req[q].pc # "idle"
    /\ \E user \in users, date \in Days :
          LET found == {id \in RemIds : matchesDate(reminders[id], user, date)}
              idx(id) == findStatus(reminders[id].dailyStatuses, date)
              default == DailyStatus(utcMidnight(date), "active", FALSE)
              lazy == {id \in found : idx(id) = 0}
          IN req' = [req EXCEPT ![r] =
                       [kind |-> "get", pc |-> IF lazy = {} THEN "done" ELSE "saving",
                        user |-> user, date |-> date,
                        code |-> 200,
                        body |-> [id \in found |->
                                    [currentStatus |->
                                        IF idx(id) = 0 THEN default
                                        ELSE reminders[id].dailyStatuses[idx(id)],
                                     synthesized |-> idx(id) = 0]],
                        saving |-> lazy]]
    /\ UNCHANGED <<tz, users, reminders, userReminders, altVars, reviewVars, clientVars, linkVars>>

\* one of the saves started by getRemindersByDate reaches the database:
\* the pushed entry is appended to the stored array ($push)
getRemindersByDate_save(r) ==
    /\ req[r].kind = "get" /\ req[r].pc = "saving"
    /\ \E id \in req[r].saving :
          /\ reminders' = [reminders EXCEPT ![id].dailyStatuses =
                             pushStatus(@, DailyStatus(utcMidnight(req[r].date),
                                                       "active", FALSE))]
          /\ req' = [req EXCEPT
                       ![r].saving = @ \ {id},
                       ![r].pc = IF req[r].saving = {id} THEN "done" ELSE "saving"]
    /\ UNCHANGED <<tz, users, userReminders, altVars, reviewVars, clientVars, linkVars>>

(***************************************************************************)
(* markReminderAsTaken                                                     *)
(***************************************************************************)
\* mutant: the owner is left out of the filter
findOneReminder_anyUser(id, user) ==
    IF id \in RemIds /\ ~reminders[id].isDeleted THEN id ELSE 0

\* Reminder.findOne({_id, user, isDeleted: false})
findOneReminder(id, user) ==
    IF id \in RemIds /\ reminders[id].user = user /\ ~reminders[id].isDeleted
    THEN id ELSE 0

\* mutant: only the date is required
missingFields_dateOnly(date, status) == date = NoDate

\* if (!date || !status)
missingFields(date, status) == date = NoDate \/ status = NoStatus

\* the handler up to the call of reminder.save(): the document is loaded,
\* the entry located or pushed, the fields assigned.  An entry that find
\* returned is the stored subdocument, so assigning to it changes the
\* document; a pushed plain object is copied into the array, so the
\* assignments that follow the push change only the plain object.
markReminderAsTaken(r) ==
    /\ req[r].pc = "idle"
    /\ \A q \in ReqIds : q < r => req[q].pc # "idle"
    /\ \E user \in users, id \in 1..(Len(reminders) + 1), date \in BodyDates,
          status \in BodyStatuses, now \in Instants :
          LET rid == findOneReminder(id, user)
              targetDate == utcMidnight(date)
              today == utcMidnight(isoDate(now))
              idx == findStatus(reminders[rid].dailyStatuses, date)
              dailyStatus == DailyStatus(
                  IF idx = 0 THEN targetDate
                             ELSE reminders[rid].dailyStatuses[idx].date,
                  status, status = "completed")
              isToday == isoDate(targetDate) = isoDate(today)
          IN req' = [req EXCEPT ![r] =
                       IF missingFields(date, status)
                       THEN [kind |-> "mark", pc |-> "done", user |-> user,
                             id |-> id, date |-> date, status |-> status,
                             code |-> 400,
                             received |-> [date |-> date, status |-> status]]
                       ELSE IF rid = 0
                       THEN [kind |-> "mark", pc |-> "done", user |-> user,
                             id |-> id, date |-> date, status |-> status,
                             code |-> 404]
                       ELSE [kind |-> "mark", pc |-> "saving", user |-> user,
                             id |-> id, date |-> date, status |-> status,
                             today |-> isoDate(today), isToday |-> isToday,
                             idx |-> idx,
                             before |-> reminders[rid],
                             currentStatus |-> dailyStatus,
                             code |-> 0]]
    /\ UNCHANGED <<tz, users, reminders, userReminders, altVars, reviewVars, clientVars, linkVars>>

\* mutant: the top-level fields are mirrored whatever the date
markUpdate_always(doc, q) ==
    LET withEntry ==
            IF q.idx = 0
            THEN [doc EXCEPT !.dailyStatuses =
                     pushStatus(@, DailyStatus(utcMidnight(q.date), "active", FALSE))]
            ELSE [doc EXCEPT !.dailyStatuses[q.idx].status = q.status,
                             !.dailyStatuses[q.idx].isTaken = (q.status = "completed")]
    IN [withEntry EXCEPT !.status = q.status,
                         !.isTaken = (q.status = "completed")]

\* the update reminder.save() sends for the changes made by the handler:
\* the entry pushed at line 740 as it was when pushed, or the fields set on
\* the entry found at index idx; and the top-level fields when the target
\* date is today
markUpdate(doc, q) ==
    LET withEntry ==
            IF q.idx = 0
            THEN [doc EXCEPT !.dailyStatuses =
                     pushStatus(@, DailyStatus(utcMidnight(q.date), "active", FALSE))]
            ELSE [doc EXCEPT !.dailyStatuses[q.idx].status = q.status,
                             !.dailyStatuses[q.idx].isTaken = (q.status = "completed")]
    IN IF q.isToday
       THEN [withEntry EXCEPT !.status = q.status,
                              !.isTaken = (q.status = "completed")]
       ELSE withEntry

\* the validation reminder.save() runs before it writes: the status of
\* an entry the handler assigned to is one of the enum
validates(q) == q.idx # 0 => q.status \in StatusEnum

\* mutant: the changes are written without validation
markReminderAsTaken_save_unvalidated(r) ==
    /\ req[r].kind = "mark" /\ req[r].pc = "saving"
    /\ reminders' = [reminders EXCEPT ![req[r].id] = markUpdate(@, req[r])]
    /\ req' = [req EXCEPT ![r].pc = "done", ![r].code = 200]
    /\ UNCHANGED <<tz, users, userReminders, altVars, reviewVars, clientVars, linkVars>>

\* await reminder.save() resolves; res.json(reminderObj)
markReminderAsTaken_save(r) ==
    /\ req[r].kind = "mark" /\ req[r].pc = "saving"
    /\ validates(req[r])
    /\ reminders' = [reminders EXCEPT ![req[r].id] = markUpdate(@, req[r])]
    /\ req' = [req EXCEPT ![r].pc = "done", ![r].code = 200]
    /\ UNCHANGED <<tz, users, userReminders, altVars, reviewVars, clientVars, linkVars>>

\* await reminder.save() rejects (the validation fails or the database
\* does): nothing is written and the catch block answers 500
markReminderAsTaken_saveFails(r) ==
    /\ req[r].kind = "mark" /\ req[r].pc = "saving"
    /\ req' = [req EXCEPT ![r].pc = "done", ![r].code = 500]
    /\ UNCHANGED <<tz, users, reminders, userReminders, altVars, reviewVars, clientVars, linkVars>>

(***************************************************************************)
(* getUserReminders and getReminder                                        *)
(***************************************************************************)
\* mutant: the list is not restricted to the account
ownReminders_all(user) == {id \in RemIds : ~reminders[id].isDeleted}

\* the filter {user, isDeleted: false} of Reminder.find
ownReminders(user) ==
    {id \in RemIds : reminders[id].user = user /\ ~reminders[id].isDeleted}

\* .sort({time: 1}): the ids of S in an order of non-decreasing time; the
\* order of reminders of equal time is the database's choice
sortedByTime(S) ==
    {seq \in [1..Cardinality(S) -> S] :
        /\ \A i, j \in 1..Cardinality(S) : i # j => seq[i] # seq[j]
        /\ \A i, j \in 1..Cardinality(S) :
              i < j => reminders[seq[i]].time <= reminders[seq[j]].time}

\* Reminder.find({user, isDeleted: false}).sort({time: 1}); res.json
getUserReminders(r) ==
    /\ req[r].pc = "idle"
    /\ \A q \in ReqIds : q < r => req[q].pc # "idle"
    /\ \E user \in users :
          \E ids \in sortedByTime(ownReminders(user)) :
             req' = [req EXCEPT ![r] =
                       [kind |-> "list", pc |-> "done", user |-> user,
                        code |-> 200,
                        body |-> [i \in 1..Len(ids) |->
                                    [id |-> ids[i], doc |-> reminders[ids[i]]]]]]
    /\ UNCHANGED <<tz, users, reminders, userReminders, altVars, reviewVars, clientVars, linkVars>>

\* Reminder.findOne({_id, user, isDeleted: false}); 404 or res.json
getReminder(r) ==
    /\ req[r].pc = "idle"
    /\ \A q \in ReqIds : q < r => req[q].pc # "idle"
    /\ \E user \in users, id \in 1..(Len(reminders) + 1) :
          LET rid == findOneReminder(id, user)
          IN req' = [req EXCEPT ![r] =
                       IF rid = 0
                       THEN [kind |-> "one", pc |-> "done", user |-> user,
                             id |-> id, code |-> 404]
                       ELSE [kind |-> "one", pc |-> "done", user |-> user,
                             id |-> id, code |-> 200,
                             body |-> reminders[rid]]]
    /\ UNCHANGED <<tz, users, reminders, userReminders, altVars, reviewVars, clientVars, linkVars>>

(***************************************************************************)
(* updateReminder                                                          *)
(***************************************************************************)
\* the fields of req.body that the model's documents have: three dates
\* and the status
DateFields == {"time", "startDate", "endDate"}

DateValues(field) == IF field = "time" THEN TimeInputs ELSE Instants

\* updateData once the undefined and null fields are deleted: any subset
\* of the fields, each with a value
UpdateBodies ==
    LET dates == UNION {{b \in [F -> Instants] :
                            \A f \in F : b[f] \in DateValues(f)} :
                        F \in SUBSET DateFields}
        statuses == UNION {[F -> StatusInputs] : F \in SUBSET {"status"}}
    IN {d @@ st : d \in dates, st \in statuses}

\* the document after the update: the fields of updateData are set, the
\* others kept (findOneAndUpdate runs no validation)
applyUpdate(doc, updateData) ==
    [f \in DOMAIN doc |-> IF f \in DOMAIN updateData THEN updateData[f] ELSE doc[f]]

\* Reminder.findOneAndUpdate({_id, user, isDeleted: false}, updateData,
\* {new: true}): one atomic operation; 404 when it finds nothing
updateReminder(r) ==
    /\ req[r].pc = "idle"
    /\ \A q \in ReqIds : q < r => req[q].pc # "idle"
    /\ Cardinality({q \in ReqIds : req[q].kind = "update"}) < MaxUpdates
    /\ \E user \in users, id \in 1..(Len(reminders) + 1),
          updateData \in UpdateBodies :
          LET rid == findOneReminder(id, user)
          IN IF rid = 0
             THEN /\ req' = [req EXCEPT ![r] =
                              [kind |-> "update", pc |-> "done", user |-> user,
                               id |-> id, updateData |-> updateData,
                               code |-> 404]]
                  /\ UNCHANGED reminders
             ELSE /\ reminders' = [reminders EXCEPT ![rid] =
                                     applyUpdate(@, updateData)]
                  /\ req' = [req EXCEPT ![r] =
                              [kind |-> "update", pc |-> "done", user |-> user,
                               id |-> id, updateData |-> updateData,
                               code |-> 200]]
    /\ UNCHANGED <<tz, users, userReminders, altVars, reviewVars, clientVars, linkVars>>

\* the query rejects: the catch block answers 500
updateReminder_fails(r) ==
    /\ req[r].pc = "idle"
    /\ \A q \in ReqIds : q < r => req[q].pc # "idle"
    /\ Cardinality({q \in ReqIds : req[q].kind = "update"}) < MaxUpdates
    /\ \E user \in users, id \in 1..(Len(reminders) + 1) :
          req' = [req EXCEPT ![r] =
                    [kind |-> "update", pc |-> "done", user |-> user,
                     id |-> id, code |-> 500]]
    /\ UNCHANGED <<tz, users, reminders, userReminders, altVars, reviewVars, clientVars, linkVars>>

(***************************************************************************)
(* deleteReminder                                                          *)
(***************************************************************************)
\* Reminder.findOneAndUpdate({_id, user, isDeleted: false},
\* {isDeleted: true, deletedAt}): one atomic operation of the database;
\* no handler reads deletedAt, which is left out of the document
deleteReminder(r) ==
    /\ req[r].pc = "idle"
    /\ \A q \in ReqIds : q < r => req[q].pc # "idle"
    /\ \E user \in users, id \in 1..(Len(reminders) + 1) :
          LET rid == findOneReminder(id, user)
          IN IF rid = 0
             THEN /\ req' = [req EXCEPT ![r] =
                              [kind |-> "delete", pc |-> "done", user |-> user,
                               id |-> id, code |-> 404]]
                  /\ UNCHANGED reminders
             ELSE /\ reminders' = [reminders EXCEPT ![rid].isDeleted = TRUE]
                  /\ req' = [req EXCEPT ![r] =
                              [kind |-> "delete", pc |-> "pull", user |-> user,
                               id |-> id, code |-> 0]]
    /\ UNCHANGED <<tz, users, userReminders, altVars, reviewVars, clientVars, linkVars>>

\* await User.findByIdAndUpdate(user, {$pull: {reminders: id}}) resolves;
\* res.json({message})
deleteReminder_pull(r) ==
    /\ req[r].kind = "delete" /\ req[r].pc = "pull"
    /\ userReminders' = [userReminders EXCEPT ![req[r].user] =
                            SelectSeq(@, LAMBDA x : x # req[r].id)]
    /\ req' = [req EXCEPT ![r].pc = "done", ![r].code = 200]
    /\ UNCHANGED <<tz, users, reminders, altVars, reviewVars, clientVars, linkVars>>

\* the update of the user rejects: the catch block answers 500
deleteReminder_pullFails(r) ==
    /\ req[r].kind = "delete" /\ req[r].pc = "pull"
    /\ req' = [req EXCEPT ![r].pc = "done", ![r].code = 500]
    /\ UNCHANGED <<tz, users, reminders, userReminders, altVars, reviewVars, clientVars, linkVars>>

(***************************************************************************)
(* The rest of the system at rest: no review, the app not started          *)
(***************************************************************************)
Null == "null"

\* useState([]), useState(true), useState(null), useState('none')
ScreenInitial ==
    [alternatives |-> <<>>, loading |-> TRUE, error |-> Null, source |-> "none"]

\* initialState of the auth slice (the fields the logout cases write)
AuthInitial ==
    [user |-> Null, token |-> Null, isAuthenticated |-> FALSE,
     isLoading |-> FALSE, error |-> Null, logoutSuccess |-> FALSE]

NotMounted == [mounted |-> FALSE, initialURL |-> <<>>, received |-> <<>>,
               foregrounds |-> 0]

ReviewsIdle == reviews = <<>> /\ ratings = <<>>

ClientIdle ==
    /\ screen = ScreenInitial
    /\ storage = {}
    /\ auth = AuthInitial
    /\ stack = <<>>
    /\ dispatched = 0
    /\ outcome = "none"

LinkingIdle == linking = NotMounted /\ handlers = <<>> /\ navigated = <<>>

(***************************************************************************)
(* Specification of the reminder endpoints                                 *)
(***************************************************************************)
Init ==
    /\ tz \in TzOffsets
    /\ users = {"A"}
    /\ reminders = <<>>
    /\ userReminders = [u \in Users |-> <<>>]
    /\ req = [r \in ReqIds |-> Idle]
    /\ medicines = <<>>
    /\ listings = <<>>
    /\ altResp = NoResponse
    /\ ReviewsIdle /\ ClientIdle /\ LinkingIdle

Next ==
    \E r \in ReqIds :
        \/ createReminder(r)
        \/ createReminder_save(r)
        \/ createReminder_saveFails(r)
        \/ createReminder_register(r)
        \/ createReminder_registerFails(r)
        \/ createReminder_respond(r)
        \/ getRemindersByDate(r)
        \/ getRemindersByDate_save(r)
        \/ markReminderAsTaken(r)
        \/ markReminderAsTaken_save(r)
        \/ markReminderAsTaken_saveFails(r)

Spec == Init /\ [][Next]_vars

\* the runs in which every request is a createReminder request
NextCreate ==
    \E r \in ReqIds :
        \/ createReminder(r)
        \/ createReminder_save(r)
        \/ createReminder_saveFails(r)
        \/ createReminder_register(r)
        \/ createReminder_registerFails(r)
        \/ createReminder_respond(r)

SpecCreate == Init /\ [][NextCreate]_vars

\* the runs in which reminders are created and updated
NextUpdate ==
    \E r \in ReqIds :
        \/ createReminder(r)
        \/ createReminder_save(r)
        \/ createReminder_saveFails(r)
        \/ createReminder_register(r)
        \/ createReminder_registerFails(r)
        \/ createReminder_respond(r)
        \/ updateReminder(r)
        \/ updateReminder_fails(r)

SpecUpdate == Init /\ [][NextUpdate]_vars

\* account B has created a series of one day (day 0) on a server whose
\* zone is UTC, and the request is over
InitUsers ==
    /\ tz = 0
    /\ users = Users
    /\ reminders = <<NewReminder("B", DayLen - 1, startOfDay(0), endOfDay(0))>>
    /\ userReminders = [u \in Users |-> IF u = "B" THEN <<1>> ELSE <<>>]
    /\ req = [r \in ReqIds |-> Idle]
    /\ medicines = <<>>
    /\ listings = <<>>
    /\ altResp = NoResponse
    /\ ReviewsIdle /\ ClientIdle /\ LinkingIdle

\* the requests that follow: all but one of the slots, over every
\* reminder endpoint, by either account
NextUsers ==
    \E r \in 1..(MaxReqs - 1) :
        \/ createReminder(r)
        \/ createReminder_save(r)
        \/ createReminder_saveFails(r)
        \/ createReminder_register(r)
        \/ createReminder_registerFails(r)
        \/ createReminder_respond(r)
        \/ getUserReminders(r)
        \/ getReminder(r)
        \/ updateReminder(r)
        \/ updateReminder_fails(r)
        \/ deleteReminder(r)
        \/ deleteReminder_pull(r)
        \/ deleteReminder_pullFails(r)
        \/ getRemindersByDate(r)
        \/ getRemindersByDate_save(r)
        \/ markReminderAsTaken(r)
        \/ markReminderAsTaken_save(r)
        \/ markReminderAsTaken_saveFails(r)

\* the runs of two accounts in which reminders are created, deleted and
\* marked, on a server whose zone is UTC (the zone plays no part in the
\* lookup of a reminder by id and owner)
InitMark ==
    /\ tz = 0
    /\ users = Users
    /\ reminders = <<>>
    /\ userReminders = [u \in Users |-> <<>>]
    /\ req = [r \in ReqIds |-> Idle]
    /\ medicines = <<>>
    /\ listings = <<>>
    /\ altResp = NoResponse
    /\ ReviewsIdle /\ ClientIdle /\ LinkingIdle

NextMark ==
    \E r \in ReqIds :
        \/ createReminder(r)
        \/ createReminder_save(r)
        \/ createReminder_saveFails(r)
        \/ createReminder_register(r)
        \/ createReminder_registerFails(r)
        \/ createReminder_respond(r)
        \/ deleteReminder(r)
        \/ deleteReminder_pull(r)
        \/ deleteReminder_pullFails(r)
        \/ markReminderAsTaken(r)
        \/ markReminderAsTaken_save(r)
        \/ markReminderAsTaken_saveFails(r)

SpecMark == InitMark /\ [][NextMark]_vars

SpecUsers == InitUsers /\ [][NextUsers]_vars

(***************************************************************************)
(* getMedicineAlternatives                                                 *)
(***************************************************************************)
\* PharmacyMedicine.findOne({medicineId, isAvailable: true, isDeleted: false,
\* stock: {$gt: 0}}): the index of the first such listing, 0 for null
\* mutant: the stock is left out of the query
pharmacyMedicine_anyStock(medicineId) ==
    LET hits == {i \in 1..Len(listings) :
                    /\ listings[i].medicineId = medicineId
                    /\ listings[i].isAvailable
                    /\ ~listings[i].isDeleted}
    IN IF hits = {} THEN 0 ELSE CHOOSE i \in hits : \A j \in hits : i <= j

pharmacyMedicine(medicineId) ==
    LET hits == {i \in 1..Len(listings) :
                    /\ listings[i].medicineId = medicineId
                    /\ listings[i].isAvailable
                    /\ ~listings[i].isDeleted
                    /\ listings[i].stock > 0}
    IN IF hits = {} THEN 0 ELSE CHOOSE i \in hits : \A j \in hits : i <= j

\* Promise.all(alts.map(...)) and .filter(alt => alt !== null): every
\* medicine of alts that has a listing, with its pharmacyInfo
alternativesWithPharmacyInfo(alts) ==
    LET kept == SelectSeq(alts, LAMBDA m : pharmacyMedicine(m) # 0)
    IN [i \in 1..Len(kept) |->
           [id |-> kept[i],
            listing |-> pharmacyMedicine(kept[i]),
            pharmacyInfo |-> listings[pharmacyMedicine(kept[i])]]]

\* the medicines in the order Medicine.find returns them
AllMedicines == [i \in 1..Cardinality(MedIds) |-> i]

\* findAlternativesByActiveIngredient(medicine), when its queries succeed
findAlternativesByActiveIngredient(id) ==
    alternativesWithPharmacyInfo(
        SelectSeq(AllMedicines,
                  LAMBDA m : /\ m # id
                             /\ medicines[m].activeIngredient = medicines[id].activeIngredient
                             /\ ~medicines[m].isDeleted
                             /\ medicines[m].isAvailable))

\* the curated path: populate('alternatives') and the pharmacy join
curatedAlternatives(id) ==
    IF Len(medicines[id].alternatives) > 0
    THEN alternativesWithPharmacyInfo(medicines[id].alternatives)
    ELSE <<>>

\* mutant: the two tags are exchanged
sourceTag_swapped(alternatives, curated) ==
    IF Len(alternatives) > 0
    THEN (IF Len(curated) > 0 THEN "activeIngredient" ELSE "predefined")
    ELSE "none"

\* source: alternatives.length > 0 ? (medicine.alternatives.length > 0 ?
\*         'predefined' : 'activeIngredient') : 'none'
sourceTag(alternatives, curated) ==
    IF Len(alternatives) > 0
    THEN (IF Len(curated) > 0 THEN "predefined" ELSE "activeIngredient")
    ELSE "none"

\* mutant: the fallback runs only for a medicine without a curated list
needsFallback_emptyList(id, alternatives) ==
    Len(medicines[id].alternatives) = 0

\* if (alternatives.length === 0): the fallback runs whenever the curated
\* path has produced nothing
needsFallback(id, alternatives) == Len(alternatives) = 0

\* the 200 response; fallbackFails: the query of the fallback rejects, the
\* catch block of findAlternativesByActiveIngredient returns []
alternativesResponse(id, fallbackFails) ==
    LET curated == curatedAlternatives(id)
        fallback == needsFallback(id, curated)
        alternatives == IF ~fallback THEN curated
                        ELSE IF fallbackFails THEN <<>>
                        ELSE findAlternativesByActiveIngredient(id)
    IN [code |-> 200, id |-> id,
        alternatives |-> alternatives,
        source |-> sourceTag(alternatives, medicines[id].alternatives),
        fallback |-> fallback,
        fallbackFailed |-> fallback /\ fallbackFails]

\* the handler, every query succeeding
getMedicineAlternatives ==
    /\ altResp = NoResponse
    /\ \E id \in MedIds \cup {0} :
          altResp' = IF id \notin MedIds \/ medicines[id].isDeleted
                     THEN [code |-> 404, id |-> id]
                     ELSE alternativesResponse(id, FALSE)
    /\ UNCHANGED <<tz, users, reminders, userReminders, req, medicines, listings,
                 reviewVars, clientVars, linkVars>>

\* a query of the handler itself rejects: the catch block answers 500
getMedicineAlternatives_fails ==
    /\ altResp = NoResponse
    /\ \E id \in MedIds \cup {0} : altResp' = [code |-> 500, id |-> id]
    /\ UNCHANGED <<tz, users, reminders, userReminders, req, medicines, listings,
                 reviewVars, clientVars, linkVars>>

\* a query of the fallback rejects
getMedicineAlternatives_fallbackFails ==
    /\ altResp = NoResponse
    /\ \E id \in MedIds :
          /\ ~medicines[id].isDeleted
          /\ needsFallback(id, curatedAlternatives(id))
          /\ altResp' = alternativesResponse(id, TRUE)
    /\ UNCHANGED <<tz, users, reminders, userReminders, req, medicines, listings,
                 reviewVars, clientVars, linkVars>>

(***************************************************************************)
(* Specification of the alternatives endpoint: one request against a       *)
(* catalogue and a stock drawn from the bounded sets below                 *)
(***************************************************************************)
Ingredients == {"X", "Y"}

\* the queried medicine with its curated list
CuratedLists == {<<>>, <<2>>, <<3>>, <<2, 3>>, <<3, 2>>}

MedicineDocs(lists) ==
    [isDeleted : BOOLEAN, isAvailable : BOOLEAN,
     activeIngredient : Ingredients, alternatives : lists]

\* a listing is in order or misses exactly one condition of the query
ListingDocs ==
    {[medicineId |-> m, isAvailable |-> k # "unavailable",
      isDeleted |-> k = "deleted", stock |-> IF k = "soldOut" THEN 0 ELSE 1]
        : m \in MedIds, k \in {"ok", "unavailable", "deleted", "soldOut"}}

SeqsUpTo(S, n) == UNION {[1..k -> S] : k \in 0..n}

InitAlt ==
    /\ tz = 0
    /\ users = {}
    /\ reminders = <<>>
    /\ userReminders = [u \in Users |-> <<>>]
    /\ req = [r \in ReqIds |-> Idle]
    /\ medicines \in [MedIds -> MedicineDocs(CuratedLists)]
    /\ medicines[1].activeIngredient = "X"
    /\ medicines[1].isAvailable
    /\ \A m \in MedIds \ {1} :
          /\ medicines[m].alternatives = <<>>
          /\ medicines[m].isDeleted => medicines[m].isAvailable
          /\ medicines[m].activeIngredient = "Y" =>
                medicines[m].isAvailable /\ ~medicines[m].isDeleted
    /\ listings \in SeqsUpTo(ListingDocs, MaxListings)
    /\ altResp = NoResponse
    /\ ReviewsIdle /\ ClientIdle /\ LinkingIdle

NextAlt ==
    \/ getMedicineAlternatives
    \/ getMedicineAlternatives_fails
    \/ getMedicineAlternatives_fallbackFails

SpecAlt == InitAlt /\ [][NextAlt]_vars

(***************************************************************************)
(* DrugAlternativeScreen of the app (App.js) and productsAPI of its api    *)
(* service.  A JavaScript value that the screen inspects is a record with  *)
(* its type: an array with its items, or an object with its properties.    *)
(***************************************************************************)
JsArray(items) == [type |-> "array", items |-> items]

\* productsAPI.getAlternatives: return response.data.alternatives || []
getAlternatives(response) == JsArray(response.alternatives)

\* Array.isArray(response) ? response : response?.alternatives || []
screenAlternatives(response) ==
    IF response.type = "array" THEN response.items
    ELSE IF "alternatives" \in DOMAIN response THEN response.alternatives
    ELSE <<>>

\* response?.source || 'activeIngredient': an array has no source property
screenSource(response) ==
    IF response.type # "array" /\ "source" \in DOMAIN response
    THEN response.source
    ELSE "activeIngredient"

\* fetchAlternatives of the screen, from the answer of the server on: a
\* failed request makes productsAPI throw handleApiError(error), the catch
\* block stores its message
fetchAlternatives ==
    /\ altResp # NoResponse
    /\ screen.loading
    /\ screen' = IF altResp.code = 200
                 THEN LET response == getAlternatives(altResp)
                      IN [screen EXCEPT
                             !.alternatives = screenAlternatives(response),
                             !.source = screenSource(response),
                             !.loading = FALSE]
                 ELSE [screen EXCEPT !.error = "message", !.loading = FALSE]
    /\ UNCHANGED <<tz, users, reminders, userReminders, req, altVars,
                   reviewVars, storage, auth, stack, dispatched, outcome,
                   linkVars>>

NextScreen ==
    \/ NextAlt
    \/ fetchAlternatives

SpecScreen == InitAlt /\ [][NextScreen]_vars

(***************************************************************************)
(* Session handling of the app: the response interceptor of the api        *)
(* service (part_001), authAPI.logout (part_001) and the logoutUser thunk  *)
(* with its reducers (part_000).  The calls wait for one another, so the   *)
(* pending calls form a stack: an api call waits for its response and      *)
(* then for its interceptor, the interceptor for the dispatch of           *)
(* logoutUser, the thunk for authAPI.logout, and authAPI.logout for its    *)
(* own api call.  A frame whose callee has settled has pc "resolved" or    *)
(* "rejected".  axios-retry repeats a request without response at most     *)
(* three times before the interceptor sees the error: the response below   *)
(* is the one of the last attempt.                                         *)
(***************************************************************************)
serverVars == <<tz, users, reminders, userReminders, req, altVars, reviewVars>>

AuthKeys == {"@auth_token", "@refresh_token", "@user"}

AllKeys == AuthKeys \cup {"@cart", "@wishlist", "@selected_address", "@address"}

\* the URLs of the modelled requests; none is part of another one, so
\* url.includes(part) is equality
RequestUrls == {"/auth/login", "/auth/register", "/medicines"}

includes(url, part) == url = part

\* HTTP status of the response, 0 when there is none (network error)
Statuses == {200, 401, 500, 0}

\* guard of the dispatch: a ceiling of the model, above what the code reaches
MaxDispatches == 4

apiFrame(url) ==
    [fn |-> "api", url |-> url, pc |-> "sent", status |-> 0, retry |-> FALSE]

top == stack[Len(stack)]

\* the innermost call settles: its caller resumes with callerPc, and the
\* outermost call leaves its result in outcome
settle(callerPc) ==
    LET rest == SubSeq(stack, 1, Len(stack) - 1)
    IN IF rest = <<>> THEN rest
       ELSE [rest EXCEPT ![Len(rest)].pc = callerPc]

settled(result) == IF Len(stack) = 1 THEN result ELSE outcome

\* store.dispatch(logoutUser()): the pending reducer runs, the thunk calls
\* authAPI.logout, which reaches its first await
dispatchLogout(callers) ==
    /\ dispatched < MaxDispatches
    /\ dispatched' = dispatched + 1
    /\ auth' = [auth EXCEPT !.isLoading = TRUE, !.error = Null]
    /\ stack' = callers \o <<[fn |-> "logoutUser", pc |-> "called"],
                             [fn |-> "logout", pc |-> "getItem"]>>

\* a component of the app calls the api service
request ==
    /\ stack = <<>> /\ outcome = "none"
    /\ \E url \in RequestUrls : stack' = <<apiFrame(url)>>
    /\ UNCHANGED <<serverVars, screen, storage, auth, dispatched, outcome,
                   linkVars>>

\* a component of the app dispatches logoutUser
logoutUser ==
    /\ stack = <<>> /\ outcome = "none"
    /\ dispatchLogout(<<>>)
    /\ UNCHANGED <<serverVars, screen, storage, outcome, linkVars>>

\* the response arrives: the success handler of the interceptor returns a
\* 2xx response, every other outcome enters its error handler
respond ==
    /\ stack # <<>> /\ top.fn = "api" /\ top.pc = "sent"
    /\ \E status \in Statuses :
          IF status = 200
          THEN /\ stack' = settle("resolved")
               /\ outcome' = settled("resolved")
          ELSE /\ stack' = [stack EXCEPT ![Len(stack)].pc = "error",
                                         ![Len(stack)].status = status]
               /\ UNCHANGED outcome
    /\ UNCHANGED <<serverVars, screen, storage, auth, dispatched, linkVars>>

\* mutant: the switch never removes the keys
clearsSession_never(url) == FALSE

\* case 401 of the switch: the condition under which the three keys are
\* removed
clearsSession(url) ==
    ~includes(url, "/auth/login") /\ ~includes(url, "/auth/register")

\* error handler, the switch on error.response.status
interceptor_switch ==
    /\ stack # <<>> /\ top.fn = "api" /\ top.pc = "error"
    /\ storage' = IF top.status = 401 /\ clearsSession(top.url)
                  THEN storage \ AuthKeys
                  ELSE storage
    /\ stack' = [stack EXCEPT ![Len(stack)].pc = "switched"]
    /\ UNCHANGED <<serverVars, screen, auth, dispatched, outcome, linkVars>>

\* error handler, "Handle 401 Unauthorized errors": the first 401 of a
\* request dispatches logoutUser and waits for it
interceptor_logout ==
    /\ stack # <<>> /\ top.fn = "api" /\ top.pc = "switched"
    /\ top.status = 401 /\ ~top.retry
    /\ dispatchLogout([stack EXCEPT ![Len(stack)].retry = TRUE,
                                    ![Len(stack)].pc = "dispatched"])
    /\ UNCHANGED <<serverVars, screen, storage, outcome, linkVars>>

\* error handler, last line: every other error is rejected as it is
interceptor_reject ==
    /\ stack # <<>> /\ top.fn = "api" /\ top.pc = "switched"
    /\ ~(top.status = 401 /\ ~top.retry)
    /\ stack' = settle("rejected")
    /\ outcome' = settled("rejected")
    /\ UNCHANGED <<serverVars, screen, storage, auth, dispatched, linkVars>>

\* error handler after the dispatch: the seven keys are removed, the
\* navigation is reset to Login and the error is rejected
interceptor_reset ==
    /\ stack # <<>> /\ top.fn = "api" /\ top.pc = "resolved"
    /\ storage' = storage \ AllKeys
    /\ stack' = settle("rejected")
    /\ outcome' = settled("rejected")
    /\ UNCHANGED <<serverVars, screen, auth, dispatched, linkVars>>

\* authAPI.logout up to its request: without a stored token the three
\* keys are removed and the call succeeds without a request
logout_getItem ==
    /\ stack # <<>> /\ top.fn = "logout" /\ top.pc = "getItem"
    /\ IF "@auth_token" \notin storage
       THEN /\ storage' = storage \ AuthKeys
            /\ stack' = settle("resolved")
       ELSE /\ stack' = [stack EXCEPT ![Len(stack)].pc = "post"]
                           \o <<apiFrame("/auth/logout")>>
            /\ UNCHANGED storage
    /\ UNCHANGED <<serverVars, screen, auth, dispatched, outcome, linkVars>>

\* authAPI.logout after its request has succeeded
logout_posted ==
    /\ stack # <<>> /\ top.fn = "logout" /\ top.pc = "resolved"
    /\ storage' = storage \ AuthKeys
    /\ stack' = settle("resolved")
    /\ UNCHANGED <<serverVars, screen, auth, dispatched, outcome, linkVars>>

\* authAPI.logout, catch block: the keys are removed and the error thrown
logout_catch ==
    /\ stack # <<>> /\ top.fn = "logout" /\ top.pc = "rejected"
    /\ storage' = storage \ AuthKeys
    /\ stack' = settle("rejected")
    /\ UNCHANGED <<serverVars, screen, auth, dispatched, outcome, linkVars>>

\* logoutUser after authAPI.logout has succeeded: the seven keys are
\* removed, the thunk returns null and the fulfilled reducer runs.  The
\* promise of the dispatch resolves.
logoutUser_fulfilled ==
    /\ stack # <<>> /\ top.fn = "logoutUser" /\ top.pc = "resolved"
    /\ storage' = storage \ AllKeys
    /\ auth' = [user |-> Null, token |-> Null, isAuthenticated |-> FALSE,
                isLoading |-> FALSE, error |-> Null, logoutSuccess |-> TRUE]
    /\ stack' = settle("resolved")
    /\ outcome' = settled("auth/logout/fulfilled")
    /\ UNCHANGED <<serverVars, screen, dispatched, linkVars>>

\* logoutUser, catch block: the seven keys are removed, the thunk returns
\* rejectWithValue(message) and the rejected reducer runs.  The promise of
\* the dispatch resolves all the same (with the rejected action).
logoutUser_rejected ==
    /\ stack # <<>> /\ top.fn = "logoutUser" /\ top.pc = "rejected"
    /\ storage' = storage \ AllKeys
    /\ auth' = [auth EXCEPT !.error = "message", !.isLoading = FALSE,
                            !.logoutSuccess = FALSE]
    /\ stack' = settle("resolved")
    /\ outcome' = settled("auth/logout/rejected")
    /\ UNCHANGED <<serverVars, screen, dispatched, linkVars>>

\* a user who is logged in, or is not, on a device whose storage holds any
\* of the auth keys and, or not, the other four
LoggedIn ==
    [user |-> "user", token |-> "token", isAuthenticated |-> TRUE,
     isLoading |-> FALSE, error |-> Null, logoutSuccess |-> FALSE]

StorageInputs ==
    {a \cup o : a \in SUBSET AuthKeys, o \in {{}, AllKeys \ AuthKeys}}

InitSession ==
    /\ tz = 0
    /\ users = {}
    /\ reminders = <<>>
    /\ userReminders = [u \in Users |-> <<>>]
    /\ req = [r \in ReqIds |-> Idle]
    /\ medicines = <<>>
    /\ listings = <<>>
    /\ altResp = NoResponse
    /\ ReviewsIdle /\ LinkingIdle
    /\ screen = ScreenInitial
    /\ storage \in StorageInputs
    /\ auth \in {AuthInitial, LoggedIn}
    /\ stack = <<>>
    /\ dispatched = 0
    /\ outcome = "none"

NextSession ==
    \/ request
    \/ logoutUser
    \/ respond
    \/ interceptor_switch
    \/ interceptor_logout
    \/ interceptor_reject
    \/ interceptor_reset
    \/ logout_getItem
    \/ logout_posted
    \/ logout_catch
    \/ logoutUser_fulfilled
    \/ logoutUser_rejected

SpecSession == InitSession /\ [][NextSession]_vars

\* every step of the chain is the continuation of a promise that has
\* settled: the event loop runs it
SpecSessionFair == SpecSession /\ WF_vars(NextSession)

(***************************************************************************)
(* Deep links of the app: the three effects of AppContent (App.js).  A URL *)
(* is the sequence of the parts between its slashes, no URL (null) the     *)
(* empty sequence.  An argument of handleDeepLink is a string or the       *)
(* event object {url} that Linking passes to a 'url' listener.  An         *)
(* activation of a handler that is going to navigate waits in handlers     *)
(* (for its timer of 500 ms); its fields origin and event only record      *)
(* what has started it.                                                    *)
(***************************************************************************)
MaxEvents == 2

MaxForegrounds == 1

PaymentUrl(orderId) == <<"sehaty:", "", "payment-complete", orderId>>

LaunchUrls == {<<>>, PaymentUrl("o1"), <<"sehaty:", "", "home">>}

EventUrls == {PaymentUrl("o1"), PaymentUrl("o2"), <<"sehaty:", "", "home">>}

JsString(url) == [type |-> "string", value |-> url]

UrlEvent(url) == [type |-> "object", url |-> url]

\* url.includes('payment-complete'): no part of a modelled URL contains
\* the word without being it
includesPaymentComplete(url) ==
    \E i \in 1..Len(url) : url[i] = "payment-complete"

\* url.split('/').pop()
lastSegment(url) == url[Len(url)]

\* handleDeepLink(arg) up to its timer, of the component or of the second
\* effect (the same text): the activations it leaves.  An event object has
\* no method includes: the call throws and the promise of the handler is
\* rejected.
handleDeepLink(arg, origin, event) ==
    IF arg.type = "object" THEN <<>>
    ELSE IF arg.value = <<>> THEN <<>>
    ELSE IF includesPaymentComplete(arg.value)
    THEN <<[orderId |-> lastSegment(arg.value), origin |-> origin,
            event |-> event]>>
    ELSE <<>>

\* getInitialUrl of the third effect: it navigates without a timer
getInitialUrl(url) ==
    IF url # <<>> /\ includesPaymentComplete(url)
    THEN <<[orderId |-> lastSegment(url), origin |-> "initial", event |-> 0]>>
    ELSE <<>>

\* AppContent is mounted: each effect checks the initial URL
mount ==
    /\ ~linking.mounted
    /\ linking' = [linking EXCEPT !.mounted = TRUE]
    /\ handlers' = handleDeepLink(JsString(linking.initialURL), "initial", 0)
                     \o handleDeepLink(JsString(linking.initialURL), "initial", 0)
                     \o getInitialUrl(linking.initialURL)
    /\ UNCHANGED <<serverVars, clientVars, navigated>>

\* Linking emits a 'url' event: the listeners of the first and the second
\* effect pass the URL of the event, the listener of the third effect is
\* handleDeepLink itself and gets the event
urlEvent ==
    /\ linking.mounted
    /\ Len(linking.received) < MaxEvents
    /\ \E url \in EventUrls :
          LET e == Len(linking.received) + 1
          IN /\ linking' = [linking EXCEPT !.received = Append(@, url)]
             /\ handlers' = handlers
                              \o handleDeepLink(JsString(url), "event", e)
                              \o handleDeepLink(JsString(url), "event", e)
                              \o handleDeepLink(UrlEvent(url), "event", e)
    /\ UNCHANGED <<serverVars, clientVars, navigated>>

\* AppState changes to 'active': the listeners of the first and the second
\* effect read the initial URL again
foreground ==
    /\ linking.mounted
    /\ linking.foregrounds < MaxForegrounds
    /\ linking' = [linking EXCEPT !.foregrounds = @ + 1]
    /\ handlers' = handlers
                     \o handleDeepLink(JsString(linking.initialURL), "foreground", 0)
                     \o handleDeepLink(JsString(linking.initialURL), "foreground", 0)
    /\ UNCHANGED <<serverVars, clientVars, navigated>>

\* the timer of an activation ends: navigate("OrderSuccessScreen", {orderId,
\* paymentMethod: "paymob", paymentCompleted: true})
navigate ==
    /\ \E i \in 1..Len(handlers) :
          /\ navigated' = Append(navigated, handlers[i])
          /\ handlers' = SubSeq(handlers, 1, i - 1)
                           \o SubSeq(handlers, i + 1, Len(handlers))
    /\ UNCHANGED <<serverVars, clientVars, linking>>

InitLinking ==
    /\ tz = 0
    /\ users = {}
    /\ reminders = <<>>
    /\ userReminders = [u \in Users |-> <<>>]
    /\ req = [r \in ReqIds |-> Idle]
    /\ medicines = <<>>
    /\ listings = <<>>
    /\ altResp = NoResponse
    /\ ReviewsIdle /\ ClientIdle
    /\ linking \in {[NotMounted EXCEPT !.initialURL = url] : url \in LaunchUrls}
    /\ handlers = <<>>
    /\ navigated = <<>>

NextLinking ==
    \/ mount
    \/ urlEvent
    \/ foreground
    \/ navigate

SpecLinking == InitLinking /\ [][NextLinking]_vars

(***************************************************************************)
(* addReview (medicineController.js).  A Review document has the fields    *)
(* the handler reads; Medicine.rating is the quotient totalRating /        *)
(* reviews.length, kept as the pair <<totalRating, reviews.length>>.       *)
(***************************************************************************)
ReviewMedIds == {1, 2}

RatingInputs == {2, 5}

\* new Review({... targetType: 'medicine', targetId, rating ...}): a review
\* that was just created is one that the query of the handler finds
NewReview(medicineId, rating) ==
    [targetId |-> medicineId, rating |-> rating, isDeleted |-> FALSE]

\* Review.find({targetType: 'medicine', targetId, isDeleted: false})
findReviews(medicineId) ==
    {i \in 1..Len(reviews) :
        reviews[i].targetId = medicineId /\ ~reviews[i].isDeleted}

RECURSIVE totalRating(_)
\* reviews.reduce((sum, review) => sum + review.rating, 0)
totalRating(found) ==
    IF found = {} THEN 0
    ELSE LET i == CHOOSE j \in found : TRUE
         IN reviews[i].rating + totalRating(found \ {i})

\* Medicine.findById, the 404 answer, new Review
addReview(r) ==
    /\ req[r] = Idle
    /\ \A q \in ReqIds : q < r => req[q].pc # "idle"
    /\ \E u \in users, id \in ReviewMedIds \cup {0}, rating \in RatingInputs :
          req' = [req EXCEPT ![r] =
                     IF id \notin ReviewMedIds \/ ratings[id].isDeleted
                     THEN [kind |-> "review", pc |-> "done", user |-> u,
                           medicineId |-> id, code |-> 404]
                     ELSE [kind |-> "review", pc |-> "saving", user |-> u,
                           medicineId |-> id, rating |-> rating, code |-> 0]]
    /\ UNCHANGED <<tz, users, reminders, userReminders, altVars, reviewVars,
                   clientVars, linkVars>>

\* await review.save()
addReview_save(r) ==
    /\ req[r].kind = "review" /\ req[r].pc = "saving"
    /\ reviews' = Append(reviews, NewReview(req[r].medicineId, req[r].rating))
    /\ req' = [req EXCEPT ![r].pc = "finding"]
    /\ UNCHANGED <<tz, users, reminders, userReminders, altVars, ratings,
                   clientVars, linkVars>>

\* await Review.find(...): the handler computes the new rating and count
\* from the reviews it has read
addReview_find(r) ==
    /\ req[r].kind = "review" /\ req[r].pc = "finding"
    /\ LET found == findReviews(req[r].medicineId)
       IN req' = [req EXCEPT ![r] =
                     [kind |-> "review", pc |-> "updating",
                      user |-> req[r].user, medicineId |-> req[r].medicineId,
                      rating |-> req[r].rating, code |-> 0,
                      newRating |-> <<totalRating(found), Cardinality(found)>>,
                      totalReviews |-> Cardinality(found)]]
    /\ UNCHANGED <<tz, users, reminders, userReminders, altVars, reviewVars,
                   clientVars, linkVars>>

\* await medicine.save(): the two modified paths are written; 201
addReview_update(r) ==
    /\ req[r].kind = "review" /\ req[r].pc = "updating"
    /\ ratings' = [ratings EXCEPT
                      ![req[r].medicineId].rating = req[r].newRating,
                      ![req[r].medicineId].totalReviews = req[r].totalReviews]
    /\ req' = [req EXCEPT ![r].pc = "done", ![r].code = 201]
    /\ UNCHANGED <<tz, users, reminders, userReminders, altVars, reviews,
                   clientVars, linkVars>>

\* two medicines without review, the second one deleted or not; the Review
\* collection is empty or holds a deleted review of the first medicine
InitReview ==
    /\ tz = 0
    /\ users = {"A"}
    /\ reminders = <<>>
    /\ userReminders = [u \in Users |-> <<>>]
    /\ req = [r \in ReqIds |-> Idle]
    /\ medicines = <<>>
    /\ listings = <<>>
    /\ altResp = NoResponse
    /\ reviews \in {<<>>, <<[targetId |-> 1, rating |-> 5, isDeleted |-> TRUE]>>}
    /\ \E deleted \in BOOLEAN :
          ratings = [m \in ReviewMedIds |->
                        [rating |-> <<0, 1>>, totalReviews |-> 0,
                         isDeleted |-> m = 2 /\ deleted]]
    /\ ClientIdle /\ LinkingIdle

NextReview ==
    \E r \in ReqIds :
        \/ addReview(r)
        \/ addReview_save(r)
        \/ addReview_find(r)
        \/ addReview_update(r)

SpecReview == InitReview /\ [][NextReview]_vars

(***************************************************************************)
(* Properties of createReminder                                            *)
(***************************************************************************)
Creates == {r \in ReqIds : req[r].kind = "create"}
Range(seq) == {seq[i] : i \in 1..Len(seq)}
MadeIds(r) == [i \in 1..Len(req[r].made) |-> req[r].made[i].id]

\* the calendar days, in the server's calendar, from the day of startDate
\* to the day of endDate, both included
DaysSpanned(r) == LocalDay(req[r].endDate) - LocalDay(req[r].startDate) + 1

\* local midnight of the i-th day of the series requested by r
DayStart(r, i) == (LocalDay(req[r].startDate) + i - 1) * DayLen - tz

\* C1: a createReminder answered 201 for startDate <= endDate spanning D
\* calendar days has persisted exactly D records, one per day of the range
\* in order, and returns exactly those D records; every stored record
\* was saved by exactly one turn of one request's loop.
C1_ExactlyDRecords ==
    /\ \A r \in Creates :
          (req[r].code = 201 /\ req[r].startDate <= req[r].endDate) =>
             /\ Len(req[r].made) = DaysSpanned(r)
             /\ \A i \in 1..Len(req[r].made) :
                   /\ req[r].made[i].id \in RemIds
                   /\ reminders[req[r].made[i].id].user = req[r].user
                   /\ reminders[req[r].made[i].id].startDate = DayStart(r, i)
                   /\ req[r].made[i].doc.startDate = DayStart(r, i)
    /\ \A id \in RemIds :
          Cardinality({<<r, i>> \in Creates \X (1..Len(reminders)) :
                          i <= Len(req[r].made) /\ req[r].made[i].id = id}) = 1

C1_Witness ==
    \E r \in Creates :
        /\ req[r].code = 201
        /\ req[r].startDate <= req[r].endDate
        /\ DaysSpanned(r) = 3

\* C2: every record made by a createReminder answered 201 has its startDate
\* and its endDate on its own calendar day, so that the end dates of one
\* series are pairwise distinct.
C2_OwnDayInterval ==
    \A r \in Creates :
        req[r].code = 201 =>
            \A i \in 1..Len(req[r].made) :
                LET doc == reminders[req[r].made[i].id]
                IN /\ LocalDay(doc.startDate) = LocalDay(doc.endDate)
                   /\ \A j \in 1..Len(req[r].made) :
                         j # i => reminders[req[r].made[j].id].endDate # doc.endDate

\* C9: a record has, at the moment createReminder stores it, exactly one
\* dailyStatuses entry, dated the record's startDate (local midnight of
\* its own day), active and not taken.
C9_SeededStatus ==
    [][\A id \in 1..Len(reminders') :
          id > Len(reminders) =>
             LET doc == reminders'[id]
             IN /\ doc.dailyStatuses =
                      <<[date |-> doc.startDate, status |-> "active", isTaken |-> FALSE]>>
                /\ \E r \in Creates, i \in 1..(NumDays + 1) :
                      doc.startDate = DayStart(r, i)]_vars

C9_Witness ==
    \E r \in Creates : Len(req[r].made) >= 2 /\ req[r].pc = "loop"

\* C10: a step that adds ids to a user's reminders list appends the ids of
\* all records of one createReminder whose loop is over, every one of them
\* stored, before that request is answered; and a 201 is sent only when
\* the ids are in the list.
C10_RegisterThenRespond ==
    [][/\ \A u \in Users :
             Range(userReminders'[u]) # Range(userReminders[u]) =>
                \E r \in Creates :
                   /\ req[r].user = u
                   /\ req[r].code = 0
                   /\ req[r].currentDate > req[r].endDateTime
                   /\ Len(req[r].made) = DaysSpanned(r)
                   /\ Range(MadeIds(r)) \subseteq RemIds
                   /\ userReminders'[u] = userReminders[u] \o MadeIds(r)
       /\ \A r \in ReqIds :
             (req'[r].kind = "create" /\ req'[r].code = 201) =>
                Range([i \in 1..Len(req'[r].made) |-> req'[r].made[i].id])
                   \subseteq Range(userReminders'[req'[r].user])]_vars

C10_Witness ==
    \E r \in Creates :
        /\ req[r].code = 201
        /\ Len(req[r].made) >= 2
        /\ Range(MadeIds(r)) \subseteq Range(userReminders[req[r].user])

\* request r of createReminder was answered 500 because a save of its
\* loop was rejected: the loop had not run past the last day
SaveFailed(r) ==
    /\ req[r].kind = "create" /\ req[r].pc = "done" /\ req[r].code = 500
    /\ req[r].currentDate <= req[r].endDateTime

\* C11: when the save of the k-th day is rejected, the answer is 500, the
\* k-1 records saved before stay stored as they were saved, the failing
\* step stores nothing and leaves every user's list as it was, none of
\* the request's ids is in a user's list, and the request does nothing
\* more afterwards (no record of a later day).
C11_PartialFailure ==
    [][\A r \in ReqIds :
          /\ (~SaveFailed(r) /\ SaveFailed(r)') =>
                /\ reminders' = reminders
                /\ userReminders' = userReminders
                /\ req'[r].made = req[r].made
          /\ SaveFailed(r)' =>
                /\ req'[r].code = 500
                /\ Len(req'[r].made) =
                      (req'[r].currentDate - startOfDay(req'[r].startDate)) \div DayLen
                /\ \A i \in 1..Len(req'[r].made) :
                      /\ req'[r].made[i].id \in 1..Len(reminders')
                      /\ reminders'[req'[r].made[i].id] = req'[r].made[i].doc
                      /\ \A u \in Users :
                            req'[r].made[i].id \notin Range(userReminders'[u])
          /\ SaveFailed(r) => req'[r] = req[r]]_vars

C11_Witness ==
    \E r \in Creates :
        /\ SaveFailed(r)
        /\ Len(req[r].made) >= 1
        /\ req[r].endDateTime >= addDays(req[r].currentDate, 1)

\* C20: every stored reminder has startDate <= endDate, in every state
\* reachable by createReminder and updateReminder.
C20_StartBeforeEnd ==
    \A id \in RemIds : reminders[id].startDate <= reminders[id].endDate

(***************************************************************************)
(* Properties of the reminder endpoints taken together                     *)
(***************************************************************************)
\* the kinds of the requests of the six endpoints that read or change
\* reminders
EndpointKinds == {"list", "one", "update", "delete", "get", "mark"}

\* the reminders a request has returned in its response so far
Revealed(q) ==
    IF q.kind = "list" THEN {q.body[i].id : i \in 1..Len(q.body)}
    ELSE IF q.kind = "get" THEN DOMAIN q.body
    ELSE IF q.kind \in {"one", "update", "mark"} /\ q.code = 200 THEN {q.id}
    ELSE {}

\* C21: no step of a request to a reminder endpoint changes a reminder of
\* another account than the requesting one, or another account's list, and
\* no response of such a request contains a reminder of another account.
C21_Isolation ==
    [][\A r \in ReqIds :
          (req'[r] # req[r] /\ req'[r].kind \in EndpointKinds) =>
             /\ \A id \in RemIds :
                   reminders[id].user # req'[r].user =>
                      reminders'[id] = reminders[id]
             /\ \A u \in Users \ {req'[r].user} :
                   userReminders'[u] = userReminders[u]
             /\ \A id \in Revealed(req'[r]) :
                   reminders'[id].user = req'[r].user]_vars

\* account A, after creating a series, lists its reminders while the
\* reminder of B is stored and not deleted
C21_Witness ==
    \E r \in ReqIds :
        /\ req[r].kind = "list" /\ req[r].user = "A"
        /\ Len(req[r].body) >= 1
        /\ \E id \in RemIds : reminders[id].user = "B" /\ ~reminders[id].isDeleted

\* a createReminder or deleteReminder request is being handled
InProgress ==
    \E r \in ReqIds : req[r].kind \in {"create", "delete"} /\ req[r].pc # "done"

\* C22: whenever no createReminder or deleteReminder request is in
\* progress, the reminders list of every account holds exactly the ids of
\* the account's reminders that are not deleted, each once, also after
\* requests that failed part-way.
C22_ListMatchesReminders ==
    ~InProgress =>
        \A u \in Users :
            /\ Range(userReminders[u]) =
                  {id \in RemIds : reminders[id].user = u /\ ~reminders[id].isDeleted}
            /\ Len(userReminders[u]) = Cardinality(Range(userReminders[u]))

(***************************************************************************)
(* Properties of the daily status tracker                                  *)
(***************************************************************************)
Gets == {r \in ReqIds : req[r].kind = "get"}
Marks == {r \in ReqIds : req[r].kind = "mark"}

\* the entries of a dailyStatuses list on UTC calendar day date
EntriesOn(dailyStatuses, date) ==
    {i \in 1..Len(dailyStatuses) : isoDate(dailyStatuses[i].date) = date}

FirstEntryOn(dailyStatuses, date) ==
    dailyStatuses[CHOOSE i \in EntriesOn(dailyStatuses, date) :
                     \A j \in EntriesOn(dailyStatuses, date) : i <= j]

DefaultStatus(date) ==
    [date |-> utcMidnight(date), status |-> "active", isTaken |-> FALSE]

\* C5: each reminder's dailyStatuses list holds at most one entry per
\* calendar date (the date of an entry being its UTC day, as the handlers
\* compare it), in every reachable state.
C5_OneEntryPerDate ==
    \A id \in RemIds :
        \A date \in {isoDate(reminders[id].dailyStatuses[i].date) :
                        i \in 1..Len(reminders[id].dailyStatuses)} :
            Cardinality(EntriesOn(reminders[id].dailyStatuses, date)) <= 1

\* the step in which request r of getRemindersByDate reads and answers
GetAnswers(r) == req[r].pc = "idle" /\ req'[r].kind = "get"

\* the step in which the save of reminder id started by r is applied
GetSaves(r, id) ==
    /\ req[r].kind = "get"
    /\ id \in req[r].saving
    /\ id \notin req'[r].saving

\* C6: getRemindersByDate(d) answers, for a returned reminder without an
\* entry for d, a currentStatus that is active and not taken and adds one
\* such entry for d to the reminder; for a reminder with an entry for d it
\* answers that entry and adds nothing; and once a first call and its
\* writes are over, a later call for the same date returns, for every
\* reminder of the first answer that no markReminderAsTaken touched, the
\* same currentStatus and adds no entry.
C6_LazyDefaultIdempotent ==
    [][\A r \in ReqIds :
          /\ GetAnswers(r) =>
                \A id \in DOMAIN req'[r].body :
                   LET ds == reminders[id].dailyStatuses
                       d == req'[r].date
                   IN /\ EntriesOn(ds, d) = {} =>
                            /\ req'[r].body[id].currentStatus = DefaultStatus(d)
                            /\ id \in req'[r].saving
                      /\ EntriesOn(ds, d) # {} =>
                            /\ req'[r].body[id].currentStatus = FirstEntryOn(ds, d)
                            /\ id \notin req'[r].saving
                      /\ \A g \in Gets :
                            ( /\ req[g].pc = "done"
                              /\ req[g].date = d
                              /\ id \in DOMAIN req[g].body
                              /\ \A m \in Marks : req[m].id # id ) =>
                               /\ req'[r].body[id].currentStatus =
                                     req[g].body[id].currentStatus
                               /\ id \notin req'[r].saving
          /\ \A id \in RemIds :
                GetSaves(r, id) =>
                   /\ reminders'[id].dailyStatuses =
                         Append(reminders[id].dailyStatuses, DefaultStatus(req[r].date))
                   /\ \A other \in RemIds \ {id} : reminders'[other] = reminders[other]]_vars

C6_Witness ==
    \E g \in Gets, r \in Gets, id \in RemIds :
        /\ g < r
        /\ req[g].pc = "done" /\ req[r].pc = "done"
        /\ req[g].date = req[r].date
        /\ id \in DOMAIN req[g].body /\ id \in DOMAIN req[r].body
        /\ req[g].body[id].synthesized
        /\ ~req[r].body[id].synthesized

\* the step in which the save of request r of markReminderAsTaken is
\* applied and the request answered
MarkSaves(r) ==
    /\ req[r].kind = "mark" /\ req[r].pc = "saving"
    /\ req'[r].pc = "done" /\ req'[r].code = 200

\* C7: markReminderAsTaken(id, d, s) with d the current UTC date sets the
\* reminder's top-level status to s and isTaken to (s = 'completed'), and
\* sets the dailyStatuses entry for d to the same.
C7_TodayMirrored ==
    [][\A r \in ReqIds :
          (MarkSaves(r) /\ req[r].date = req[r].today) =>
             LET doc == reminders'[req[r].id]
             IN /\ doc.status = req[r].status
                /\ doc.isTaken = (req[r].status = "completed")
                /\ EntriesOn(doc.dailyStatuses, req[r].date) # {}
                /\ FirstEntryOn(doc.dailyStatuses, req[r].date).status = req[r].status
                /\ FirstEntryOn(doc.dailyStatuses, req[r].date).isTaken =
                      (req[r].status = "completed")]_vars

\* C8: markReminderAsTaken(id, d, s) with d not the current UTC date leaves
\* the reminder's top-level status and isTaken as they were; nothing of
\* the reminder but its dailyStatuses entry for d changes, and no other
\* reminder changes.
C8_OtherDayFrame ==
    [][\A r \in ReqIds :
          (MarkSaves(r) /\ req[r].date # req[r].today) =>
             LET old == reminders[req[r].id]
                 new == reminders'[req[r].id]
             IN /\ new.status = old.status
                /\ new.isTaken = old.isTaken
                /\ [new EXCEPT !.dailyStatuses = <<>>] = [old EXCEPT !.dailyStatuses = <<>>]
                /\ Len(new.dailyStatuses) >= Len(old.dailyStatuses)
                /\ \A i \in 1..Len(new.dailyStatuses) :
                      \/ isoDate(new.dailyStatuses[i].date) = req[r].date
                      \/ i <= Len(old.dailyStatuses)
                         /\ new.dailyStatuses[i] = old.dailyStatuses[i]
                /\ \A other \in RemIds \ {req[r].id} :
                      reminders'[other] = reminders[other]]_vars

C8_Witness ==
    \E r \in Marks :
        /\ req[r].code = 200
        /\ req[r].date # req[r].today
        /\ reminders[req[r].id].status = "active"
        /\ \E i \in 1..Len(reminders[req[r].id].dailyStatuses) :
              reminders[req[r].id].dailyStatuses[i].status = req[r].status

\* C17: when getRemindersByDate sends its response, every default entry
\* it synthesized is stored: a reminder answered with a synthesized
\* currentStatus has an entry for the date at that moment.
C17_PersistedBeforeResponse ==
    [][\A r \in ReqIds :
          GetAnswers(r) =>
             \A id \in DOMAIN req'[r].body :
                req'[r].body[id].synthesized =>
                   EntriesOn(reminders'[id].dailyStatuses, req'[r].date) # {}]_vars

\* C16: when markReminderAsTaken(id, d, s) succeeds, the stored entry for
\* d of the reminder has status s and isTaken = (s = 'completed'), whether
\* it existed or was created by the call, and the currentStatus of the
\* response is that stored entry.
C16_EntryPersisted ==
    [][\A r \in ReqIds :
          MarkSaves(r) =>
             LET ds == reminders'[req[r].id].dailyStatuses
                 d == req[r].date
             IN /\ EntriesOn(ds, d) # {}
                /\ FirstEntryOn(ds, d).status = req[r].status
                /\ FirstEntryOn(ds, d).isTaken = (req[r].status = "completed")
                /\ req'[r].currentStatus = FirstEntryOn(ds, d)]_vars

MarkReceived(r) == req[r].pc = "idle" /\ req'[r].kind = "mark"

\* no reminder id, or a soft-deleted one, or one of another account
Missing(id, user) ==
    \/ id \notin RemIds
    \/ reminders[id].isDeleted
    \/ reminders[id].user # user

\* C12: markReminderAsTaken with date and status present, for an id that
\* does not exist, is soft-deleted or belongs to another account, answers
\* 404 without changing a reminder, and does nothing afterwards.
C12_NotFound ==
    [][\A r \in ReqIds :
          /\ ( /\ MarkReceived(r)
               /\ req'[r].date # NoDate /\ req'[r].status # NoStatus
               /\ Missing(req'[r].id, req'[r].user) ) =>
                /\ req'[r].pc = "done" /\ req'[r].code = 404
                /\ reminders' = reminders
          /\ (req[r].kind = "mark" /\ req[r].code = 404) => req'[r] = req[r]]_vars

C12_Witness ==
    \E r \in Marks, q \in ReqIds :
        /\ req[r].code = 404
        /\ req[r].id \in RemIds
        /\ reminders[req[r].id].isDeleted
        /\ reminders[req[r].id].user = req[r].user
        /\ req[q].kind = "delete" /\ req[q].code = 200 /\ q < r
        /\ req[q].id = req[r].id

\* C13: markReminderAsTaken without date or without status answers 400
\* with the received date and status echoed, whatever the id (known or
\* not), changes no reminder, and does nothing afterwards.
C13_BadRequest ==
    [][\A r \in ReqIds :
          /\ ( /\ MarkReceived(r)
               /\ (req'[r].date = NoDate \/ req'[r].status = NoStatus) ) =>
                /\ req'[r].pc = "done" /\ req'[r].code = 400
                /\ req'[r].received =
                      [date |-> req'[r].date, status |-> req'[r].status]
                /\ reminders' = reminders
          /\ (req[r].kind = "mark" /\ req[r].code = 400) => req'[r] = req[r]]_vars

\* a 400 for an unknown id, and a 400 for a reminder of the account
C13_Witness ==
    \E r \in Marks, q \in Marks :
        /\ req[r].code = 400 /\ req[q].code = 400
        /\ Missing(req[r].id, req[r].user)
        /\ ~Missing(req[q].id, req[q].user)
        /\ req[q].status = NoStatus /\ req[q].date # NoDate

(***************************************************************************)
(* Properties of getMedicineAlternatives                                   *)
(***************************************************************************)
\* medicine m has an available, not deleted listing with stock
HasOffer(m) ==
    \E i \in 1..Len(listings) :
        /\ listings[i].medicineId = m
        /\ listings[i].isAvailable /\ ~listings[i].isDeleted
        /\ listings[i].stock > 0

Curated(id) == Range(medicines[id].alternatives)

\* the medicines the active-ingredient fallback is to find for id
IngredientMatches(id) ==
    {m \in MedIds \ {id} :
        /\ medicines[m].activeIngredient = medicines[id].activeIngredient
        /\ ~medicines[m].isDeleted /\ medicines[m].isAvailable
        /\ HasOffer(m)}

Returned == {altResp.alternatives[i].id : i \in 1..Len(altResp.alternatives)}

\* the response is for a medicine with a curated list none of whose
\* members has an offer
CuratedAllSoldOut ==
    /\ altResp.code = 200
    /\ Curated(altResp.id) # {}
    /\ \A m \in Curated(altResp.id) : ~HasOffer(m)

\* C3: a medicine with a non-empty curated list none of whose
\* members has an offer is answered source 'none', and no result of the
\* active-ingredient fallback is returned for it, even when medicines
\* with the same active ingredient are in stock.
C3_NoFallbackForCurated ==
    CuratedAllSoldOut => altResp.source = "none" /\ Returned = {}

\* what the handler does for such a medicine (lines 420-428): the fallback
\* is used; when its query succeeds the response carries exactly the
\* fallback's matches, tagged 'predefined' when there are some and 'none'
\* when there are none.
C3_FallbackForCurated ==
    CuratedAllSoldOut =>
        /\ altResp.fallback
        /\ ~altResp.fallbackFailed => Returned = IngredientMatches(altResp.id)
        /\ altResp.fallbackFailed => Returned = {}
        /\ altResp.source = IF Returned = {} THEN "none" ELSE "predefined"

C3_Witness ==
    /\ CuratedAllSoldOut
    /\ IngredientMatches(altResp.id) # {}
    /\ altResp.source = "predefined"

\* C4: source is 'predefined' when the curated list yields an alternative
\* with an offer, 'activeIngredient' when the curated list is empty and a
\* same-ingredient medicine with an offer is found, 'none' when the
\* returned list is empty.
C4_SourceTag ==
    altResp.code = 200 =>
        /\ (\E m \in Curated(altResp.id) : HasOffer(m)) =>
              altResp.source = "predefined"
        /\ ( /\ Curated(altResp.id) = {}
             /\ IngredientMatches(altResp.id) # {}
             /\ ~altResp.fallbackFailed ) =>
              altResp.source = "activeIngredient"
        /\ altResp.alternatives = <<>> => altResp.source = "none"

C4_Witness ==
    /\ altResp.code = 200
    /\ altResp.source = "activeIngredient"
    /\ Cardinality(Returned) = 2

\* C14: every element of a returned alternatives list carries the
\* pharmacyInfo of a listing of that same medicine that is available, not
\* deleted and in stock; a medicine without such a listing is not returned.
C14_ListedOnly ==
    altResp.code = 200 =>
        \A i \in 1..Len(altResp.alternatives) :
            LET alt == altResp.alternatives[i]
            IN /\ alt.pharmacyInfo \in Range(listings)
               /\ alt.pharmacyInfo.medicineId = alt.id
               /\ alt.pharmacyInfo.isAvailable
               /\ ~alt.pharmacyInfo.isDeleted
               /\ alt.pharmacyInfo.stock > 0
               /\ HasOffer(alt.id)

\* a curated list of two of which one is returned and the other, listed
\* but sold out, is dropped
C14_Witness ==
    /\ altResp.code = 200
    /\ ~altResp.fallback
    /\ Cardinality(Curated(altResp.id)) = 2
    /\ Cardinality(Returned) = 1
    /\ \E m \in Curated(altResp.id) \ Returned :
          \E i \in 1..Len(listings) :
              listings[i].medicineId = m /\ listings[i].stock = 0

\* a query rejected while the request for alternatives was handled: in
\* the handler itself, or in its active-ingredient fallback
AltQueryFailed ==
    \/ altResp.code = 500
    \/ altResp.code = 200 /\ altResp.fallbackFailed

\* C15: a request during which a database operation failed is answered
\* 500, never 2xx, also when the failure is inside the fallback query of
\* getMedicineAlternatives.
C15_FailureIs500 ==
    AltQueryFailed => altResp.code = 500

\* C18: when the active-ingredient fallback runs, the returned
\* alternatives are exactly the other medicines that are not deleted, are
\* available, share the active ingredient of the queried medicine and have
\* an available listing in stock; the queried medicine is not among them.
C18_FallbackExact ==
    (altResp.code = 200 /\ altResp.fallback) =>
        /\ Returned = IngredientMatches(altResp.id)
        /\ altResp.id \notin Returned

\* C23: when the response is tagged 'predefined', every returned medicine
\* is a member of the curated alternatives list of the queried medicine.
C23_PredefinedIsCurated ==
    (altResp.code = 200 /\ altResp.source = "predefined") =>
        Returned \subseteq Curated(altResp.id)

(***************************************************************************)
(* Properties of the alternatives screen                                   *)
(***************************************************************************)
\* C24: after fetchAlternatives has succeeded, the source state of the
\* screen is the source tag of the server's response
C24_ScreenSource ==
    (altResp.code = 200 /\ ~screen.loading /\ screen.error = Null) =>
        screen.source = altResp.source

(***************************************************************************)
(* Properties of the session handling of the app                           *)
(***************************************************************************)
ThunkSettles ==
    stack # <<>> /\ top.fn = "logoutUser" /\ Len(stack') < Len(stack)

\* C25: when the logoutUser thunk settles, fulfilled or rejected, the keys
\* @auth_token, @refresh_token and @user are removed and the auth state has
\* user = null, token = null and isAuthenticated = false
C25_SessionCleared ==
    [][ThunkSettles =>
          /\ storage' \cap AuthKeys = {}
          /\ auth'.user = Null
          /\ auth'.token = Null
          /\ ~auth'.isAuthenticated]_vars

\* the call at the bottom of the chain is a request to the login or the
\* register endpoint that was answered 401
AuthRequestFailed ==
    /\ stack # <<>>
    /\ stack[1].fn = "api"
    /\ stack[1].status = 401
    /\ includes(stack[1].url, "/auth/login")
          \/ includes(stack[1].url, "/auth/register")

\* C26: the handling of a 401 response to a login or register request
\* leaves the stored @auth_token, @refresh_token and @user as they are
C26_AuthRequestKeepsKeys ==
    [][AuthRequestFailed =>
          storage' \cap AuthKeys = storage \cap AuthKeys]_vars

\* the original request of the chain was answered 401
Unauthorized ==
    stack # <<>> /\ stack[1].fn = "api" /\ stack[1].status = 401

\* C27: the handling of a 401 response ends: one failing request causes at
\* most two dispatches of logoutUser, and its promise is rejected in the end
C27_Terminates ==
    /\ [](dispatched <= 2)
    /\ Unauthorized ~> (stack = <<>> /\ outcome = "rejected")

\* a request was answered 401, its logout request was answered 401 too, and
\* the chain has ended with the rejection of the request
C27_Witness ==
    stack = <<>> /\ outcome = "rejected" /\ dispatched = 2

(***************************************************************************)
(* Properties of the deep links                                            *)
(***************************************************************************)
NavigationsOf(e) ==
    {i \in 1..Len(navigated) :
        navigated[i].origin = "event" /\ navigated[i].event = e}

\* C28: once the handlers have finished, every payment-complete URL event
\* has caused exactly one navigation, with the last part of its URL as
\* orderId, and no navigation comes from bringing the app to the foreground
C28_OneNavigationPerEvent ==
    handlers = <<>> =>
        /\ \A e \in 1..Len(linking.received) :
              includesPaymentComplete(linking.received[e]) =>
                 /\ Cardinality(NavigationsOf(e)) = 1
                 /\ \A i \in NavigationsOf(e) :
                       navigated[i].orderId = lastSegment(linking.received[e])
        /\ \A i \in 1..Len(navigated) : navigated[i].origin # "foreground"

(***************************************************************************)
(* Properties of addReview                                                 *)
(***************************************************************************)
ReviewsDone ==
    /\ \A r \in ReqIds : req[r].kind = "review" => req[r].pc = "done"
    /\ \E r \in ReqIds : req[r].kind = "review" /\ req[r].code = 201

\* C29: once every addReview request is over, a medicine that was reviewed
\* has totalReviews = the number of its reviews that are not deleted, and
\* rating = the sum of their ratings divided by that number
C29_RatingMatchesReviews ==
    ReviewsDone =>
        \A r \in ReqIds :
            (req[r].kind = "review" /\ req[r].code = 201) =>
                LET m == req[r].medicineId
                    found == findReviews(m)
                IN /\ ratings[m].totalReviews = Cardinality(found)
                   /\ ratings[m].rating[1] * Cardinality(found)
                         = totalRating(found) * ratings[m].rating[2]

====
